---- MODULE Spec2Model ----
(***************************************************************************)
(* TimeRotatingWriter of logit-go: a mutex-protected io.WriteCloser that   *)
(* wraps a lumberjack.Logger (the sink) and forces a rotation of the sink  *)
(* once rotationTime has elapsed since lastRotation.                       *)
(*                                                                         *)
(* The repository holds two versions of the writer.  version = 1 is the    *)
(* earlier one (Write only, no "rotationTime > 0" guard, returns at once   *)
(* when Rotate fails); version = 2 is the later one (guarded check,        *)
(* fallback write after a failed Rotate, and a Close method).  Which one   *)
(* a writer instance runs is fixed when it is constructed.                 *)
(*                                                                         *)
(* Callers are goroutines; every statement of Write/Close that touches     *)
(* the mutex, the clock, lastRotation or the sink is one step.  Each call  *)
(* is made by a goroutine of its own (the writer keeps nothing about who   *)
(* calls it, so a goroutine that calls again after a return is the same    *)
(* to it as another goroutine calling).                                    *)
(***************************************************************************)
EXTENDS Integers, Naturals, Sequences, FiniteSets, TLC

\* ---- bounds of the model ------------------------------------------------
MaxCalls == 2
MaxTime == 2
MaxLen == 1
MinInterval == 0 - 1
MaxCtxs == 3
MaxRecords == 2

Procs == 1..MaxCalls
Versions == {1, 2}
Intervals == MinInterval..MaxTime

\* ---- error values -------------------------------------------------------
\* A Go error is nil or carries a message; a message is a sequence of text
\* pieces, so that formatting an error into another one is concatenation.
Nil == [nil |-> TRUE, msg |-> <<>>]
NewErr(m) == [nil |-> FALSE, msg |-> m]

RotateErrs == {NewErr(<<"rename failed">>)}
WriteErrs == {NewErr(<<"disk full">>)}
CloseErrs == {NewErr(<<"close failed">>)}

\* fmt.Errorf("<write after rotation failure>: %v (<rotation error>: %v)", writeErr, err)
ErrorfBoth(writeErr, err) ==
    NewErr(<<"write error after rotation error: ">> \o writeErr.msg
           \o <<" (rotation error: ">> \o err.msg \o <<")">>)

\* fmt.Errorf("<log file rotation error>: %v", err)
ErrorfRotate(err) == NewErr(<<"log file rotation error: ">> \o err.msg)

\* ---- the sink (lumberjack.Logger) as seen through its three calls --------
\* Write(p) returns (n, err) with 0 <= n <= len(p); a full count with nil,
\* or any count with an error.
SinkWriteResults(len) ==
    {[n |-> len, err |-> Nil]} \cup
    {[n |-> k, err |-> e] : k \in 0..len, e \in WriteErrs}

SinkRotateResults == {Nil} \cup RotateErrs
SinkCloseResults == {Nil} \cup CloseErrs

\* ---- values of the logging facade (logIt) ------------------------------
\* A string is either one the caller supplied or the text of a generated
\* UUID; the k-th call of uuid.New() yields Uuid(k), different from every
\* other string.
Str(s) == [gen |-> 0, s |-> s]
Uuid(k) == [gen |-> k, s |-> "uuid"]

OpNames == {"opA"}
TraceStrs == {"t1", ""}
Methods == {"Debug", "Info", "Infof", "Warn", "Warnf",
            "Error", "Errorf", "Fatal", "Fatalf"}

\* the value stored under a context key (or pointed to by a *string), or
\* its absence (a nil pointer)
Absent == [has |-> FALSE, v |-> Str("")]
Present(v) == [has |-> TRUE, v |-> v]

\* a context.Context: nil, or the values under opKey and traceIDKey
NilCtx == [nil |-> TRUE, op |-> Absent, trace |-> Absent]
Background == [nil |-> FALSE, op |-> Absent, trace |-> Absent]

VARIABLES
    version,        \* which Write/Close code the instance runs
    rotationTime,   \* w.rotationTime
    lastRotation,   \* w.lastRotation
    mu,             \* w.mu: 0 when free, else the goroutine holding it
    now,            \* the clock read by time.Now() / time.Since()
    pc,             \* per goroutine: position inside Write/Close
    rotErr,         \* per goroutine: the local err of "if err := Rotate()"
    calls,          \* per goroutine: its call's arguments, observations, result
    sinkLog,        \* calls received by the sink, in order; "own" is the
                    \* time at which the sink rotated the file by itself
                    \* during the call (size-based rotation), else -1
    lockOrder,      \* goroutines in the order they acquired w.mu
    ctxs,           \* the context.Context values the program holds
    records,        \* the records handed to the zap logger (or printed)
    uuids           \* how many times uuid.New() was called

\* the state of the logging facade (logIt); the writer does not touch it
facade == <<ctxs, records, uuids>>

vars == <<version, rotationTime, lastRotation, mu, now, pc, rotErr,
          calls, sinkLog, lockOrder, ctxs, records, uuids>>

NoResult == [n |-> 0 - 1, err |-> Nil]

NewCall(kind, len) ==
    [kind |-> kind, len |-> len,
     seen |-> 0 - 1, chkNow |-> 0 - 1, chkLast |-> 0 - 1, stamp |-> 0 - 1,
     done |-> FALSE, res |-> NoResult]

\* NewTimeRotatingWriter(logger, rotationTime): lastRotation = time.Now()
Init ==
    /\ version \in Versions
    /\ rotationTime \in Intervals
    /\ now = 0
    /\ lastRotation = now
    /\ mu = 0
    /\ pc = [p \in Procs |-> "idle"]
    /\ rotErr = [p \in Procs |-> Nil]
    /\ calls = [p \in Procs |-> NewCall("none", 0)]
    /\ sinkLog = <<>>
    /\ lockOrder = <<>>
    /\ ctxs = {Background}
    /\ records = <<>>
    /\ uuids = 0

\* time passes
Tick ==
    /\ now < MaxTime
    /\ now' = now + 1
    /\ UNCHANGED <<facade, version, rotationTime, lastRotation, mu, pc, rotErr,
                   calls, sinkLog, lockOrder>>

\* a goroutine calls w.Write(p); p holds MaxLen bytes
CallWrite(p) ==
    /\ pc[p] = "idle"
    /\ calls' = [calls EXCEPT ![p] = NewCall("Write", MaxLen)]
    /\ pc' = [pc EXCEPT ![p] = "lock"]
    /\ UNCHANGED <<facade, version, rotationTime, lastRotation, mu, now, rotErr,
                   sinkLog, lockOrder>>

\* a goroutine calls w.Close(); only the later version defines Close (in the
\* earlier one Close is the embedded lumberjack.Logger's own method)
CallClose(p) ==
    /\ version = 2
    /\ pc[p] = "idle"
    /\ calls' = [calls EXCEPT ![p] = NewCall("Close", 0)]
    /\ pc' = [pc EXCEPT ![p] = "lock"]
    /\ UNCHANGED <<facade, version, rotationTime, lastRotation, mu, now, rotErr,
                   sinkLog, lockOrder>>

\* variant of Lock that does not wait for the mutex to be free
Lock_nowait(p) ==
    /\ pc[p] = "lock"
    /\ mu' = p
    /\ lockOrder' = Append(lockOrder, p)
    /\ calls' = [calls EXCEPT ![p].seen = Len(sinkLog)]
    /\ pc' = [pc EXCEPT ![p] =
                 IF calls[p].kind = "Write" THEN "check" ELSE "close"]
    /\ UNCHANGED <<facade, version, rotationTime, lastRotation, now, rotErr,
                   sinkLog>>

\* w.mu.Lock()
Lock(p) ==
    /\ pc[p] = "lock"
    /\ mu = 0
    /\ mu' = p
    /\ lockOrder' = Append(lockOrder, p)
    /\ calls' = [calls EXCEPT ![p].seen = Len(sinkLog)]
    /\ pc' = [pc EXCEPT ![p] =
                 IF calls[p].kind = "Write" THEN "check" ELSE "close"]
    /\ UNCHANGED <<facade, version, rotationTime, lastRotation, now, rotErr,
                   sinkLog>>

\* variant of RotationDue that measures the time since construction
RotationDue_sinceStart(ver, interval, last, t) ==
    IF ver = 1
    THEN t - 0 >= interval
    ELSE interval > 0 /\ t - 0 >= interval

\* variant of RotationDue that compares with > instead of >=
RotationDue_strict(ver, interval, last, t) ==
    IF ver = 1
    THEN t - last > interval
    ELSE interval > 0 /\ t - last > interval

\* the rotation check of Write
\*   earlier version: time.Since(w.lastRotation) >= w.rotationTime
\*   later version:   w.rotationTime > 0 && time.Since(w.lastRotation) >= w.rotationTime
RotationDue(ver, interval, last, t) ==
    IF ver = 1
    THEN t - last >= interval
    ELSE interval > 0 /\ t - last >= interval

\* variant of Check in which the mutex covers the timestamp check only
Check_unlock(p) ==
    /\ pc[p] = "check"
    /\ mu' = 0
    /\ calls' = [calls EXCEPT ![p].chkNow = now,
                              ![p].chkLast = lastRotation]
    /\ pc' = [pc EXCEPT ![p] =
                 IF RotationDue(version, rotationTime, lastRotation, now)
                 THEN "rotate" ELSE "write"]
    /\ UNCHANGED <<facade, version, rotationTime, lastRotation, now, rotErr,
                   sinkLog, lockOrder>>

Check(p) ==
    /\ pc[p] = "check"
    /\ calls' = [calls EXCEPT ![p].chkNow = now,
                              ![p].chkLast = lastRotation]
    /\ pc' = [pc EXCEPT ![p] =
                 IF RotationDue(version, rotationTime, lastRotation, now)
                 THEN "rotate" ELSE "write"]
    /\ UNCHANGED <<facade, version, rotationTime, lastRotation, mu, now, rotErr,
                   sinkLog, lockOrder>>

\* variant of RotateNext that treats a failed Rotate as a successful one
RotateNext_ignore(ver, e) == "stamp"

\* where Write goes after err := w.Logger.Rotate():
\*   err == nil: on to "w.lastRotation = time.Now()"
\*   err != nil: the earlier version returns (0, err), the later one tries
\*               the write against the old file
RotateNext(ver, e) ==
    IF e.nil THEN "stamp"
    ELSE IF ver = 1 THEN "return" ELSE "fallback"

\* return 0, err   (earlier version, Rotate failed)
RotateErrorResult(e) == [n |-> 0, err |-> e]

\* variant of Rotate that gives up the mutex while the sink rotates
Rotate_unlock(p) ==
    /\ pc[p] = "rotate"
    /\ mu' = 0
    /\ \E e \in SinkRotateResults :
          /\ sinkLog' = Append(sinkLog,
                 [op |-> "rotate", call |-> p, n |-> 0, err |-> e,
                  held |-> mu, own |-> 0 - 1])
          /\ rotErr' = [rotErr EXCEPT ![p] = e]
          /\ pc' = [pc EXCEPT ![p] = RotateNext(version, e)]
          /\ calls' = IF RotateNext(version, e) = "return"
                      THEN [calls EXCEPT ![p].res = RotateErrorResult(e)]
                      ELSE calls
    /\ UNCHANGED <<facade, version, rotationTime, lastRotation, now, lockOrder>>

\* err := w.Logger.Rotate()
Rotate(p) ==
    /\ pc[p] = "rotate"
    /\ \E e \in SinkRotateResults :
          /\ sinkLog' = Append(sinkLog,
                 [op |-> "rotate", call |-> p, n |-> 0, err |-> e,
                  held |-> mu, own |-> 0 - 1])
          /\ rotErr' = [rotErr EXCEPT ![p] = e]
          /\ pc' = [pc EXCEPT ![p] = RotateNext(version, e)]
          /\ calls' = IF RotateNext(version, e) = "return"
                      THEN [calls EXCEPT ![p].res = RotateErrorResult(e)]
                      ELSE calls
    /\ UNCHANGED <<facade, version, rotationTime, lastRotation, mu, now,
                   lockOrder>>

\* variant of Stamp that stores the time the next rotation is due
Stamp_next(p) ==
    /\ pc[p] = "stamp"
    /\ lastRotation' = now + rotationTime
    /\ calls' = [calls EXCEPT ![p].stamp = now + rotationTime]
    /\ pc' = [pc EXCEPT ![p] = "write"]
    /\ UNCHANGED <<facade, version, rotationTime, mu, now, rotErr,
                   sinkLog, lockOrder>>

\* w.lastRotation = time.Now()
Stamp(p) ==
    /\ pc[p] = "stamp"
    /\ lastRotation' = now
    /\ calls' = [calls EXCEPT ![p].stamp = now]
    /\ pc' = [pc EXCEPT ![p] = "write"]
    /\ UNCHANGED <<facade, version, rotationTime, mu, now, rotErr,
                   sinkLog, lockOrder>>

\* variant of WriteResult that reports no bytes when the sink write failed
WriteResult_zero(r) == IF r.err.nil THEN r ELSE [n |-> 0, err |-> r.err]

\* variant of WriteResult that drops the error of the sink write
WriteResult_noerr(r) == [n |-> r.n, err |-> Nil]

\* return w.Logger.Write(p)
WriteResult(r) == r

\* variant of SinkWrite that takes back the new lastRotation when the sink
\* write fails
SinkWrite_undo(p) ==
    /\ pc[p] = "write"
    /\ \E r \in SinkWriteResults(calls[p].len) :
          /\ sinkLog' = Append(sinkLog,
                 [op |-> "write", call |-> p, n |-> r.n, err |-> r.err,
                  held |-> mu, own |-> 0 - 1])
          /\ calls' = [calls EXCEPT ![p].res = WriteResult(r)]
          /\ lastRotation' = IF r.err.nil THEN lastRotation
                              ELSE calls[p].chkLast
    /\ pc' = [pc EXCEPT ![p] = "return"]
    /\ UNCHANGED <<facade, version, rotationTime, mu, now, rotErr, lockOrder>>

SinkWrite(p) ==
    /\ pc[p] = "write"
    /\ \E r \in SinkWriteResults(calls[p].len) :
          /\ sinkLog' = Append(sinkLog,
                 [op |-> "write", call |-> p, n |-> r.n, err |-> r.err,
                  held |-> mu, own |-> 0 - 1])
          /\ calls' = [calls EXCEPT ![p].res = WriteResult(r)]
    /\ pc' = [pc EXCEPT ![p] = "return"]
    /\ UNCHANGED <<facade, version, rotationTime, lastRotation, mu, now, rotErr,
                   lockOrder>>

\* variant of FallbackResult that passes the sink's count and reports the
\* rotation error only, also when the fallback write failed
FallbackResult_count(r, err) ==
    IF ~r.err.nil
    THEN [n |-> r.n, err |-> ErrorfRotate(err)]
    ELSE [n |-> r.n, err |-> ErrorfRotate(err)]

\* currentN, writeErr := w.Logger.Write(p)
\* if writeErr != nil { return 0, fmt.Errorf(..., writeErr, err) }
\* return currentN, fmt.Errorf(..., err)
FallbackResult(r, err) ==
    IF ~r.err.nil
    THEN [n |-> 0, err |-> ErrorfBoth(r.err, err)]
    ELSE [n |-> r.n, err |-> ErrorfRotate(err)]

FallbackWrite(p) ==
    /\ pc[p] = "fallback"
    /\ \E r \in SinkWriteResults(calls[p].len) :
          /\ sinkLog' = Append(sinkLog,
                 [op |-> "write", call |-> p, n |-> r.n, err |-> r.err,
                  held |-> mu, own |-> 0 - 1])
          /\ calls' = [calls EXCEPT ![p].res =
                          FallbackResult(r, rotErr[p])]
    /\ pc' = [pc EXCEPT ![p] = "return"]
    /\ UNCHANGED <<facade, version, rotationTime, lastRotation, mu, now, rotErr,
                   lockOrder>>

\* variant of CloseResult that wraps the error of the sink close
CloseResult_wrap(e) ==
    IF e.nil THEN Nil ELSE NewErr(<<"close error: ">> \o e.msg)

\* return w.Logger.Close()
CloseResult(e) == e

\* variant of CloseSink that rotates the sink before closing it
CloseSink_rotate(p) ==
    /\ pc[p] = "close"
    /\ \E e \in SinkCloseResults :
          /\ sinkLog' = sinkLog \o
                 <<[op |-> "rotate", call |-> p, n |-> 0, err |-> Nil,
                    held |-> mu, own |-> 0 - 1],
                   [op |-> "close", call |-> p, n |-> 0, err |-> e,
                    held |-> mu, own |-> 0 - 1]>>
          /\ calls' = [calls EXCEPT ![p].res =
                          [n |-> 0, err |-> CloseResult(e)]]
    /\ pc' = [pc EXCEPT ![p] = "return"]
    /\ UNCHANGED <<facade, version, rotationTime, lastRotation, mu, now, rotErr,
                   lockOrder>>

CloseSink(p) ==
    /\ pc[p] = "close"
    /\ \E e \in SinkCloseResults :
          /\ sinkLog' = Append(sinkLog,
                 [op |-> "close", call |-> p, n |-> 0, err |-> e,
                  held |-> mu, own |-> 0 - 1])
          /\ calls' = [calls EXCEPT ![p].res =
                          [n |-> 0, err |-> CloseResult(e)]]
    /\ pc' = [pc EXCEPT ![p] = "return"]
    /\ UNCHANGED <<facade, version, rotationTime, lastRotation, mu, now, rotErr,
                   lockOrder>>

\* variant of Return that leaves the mutex locked
Return_nounlock(p) ==
    /\ pc[p] = "return"
    /\ calls' = [calls EXCEPT ![p].done = TRUE]
    /\ pc' = [pc EXCEPT ![p] = "done"]
    /\ UNCHANGED <<facade, version, rotationTime, lastRotation, mu, now, rotErr,
                   sinkLog, lockOrder>>

\* defer w.mu.Unlock(), then the call returns to its caller
Return(p) ==
    /\ pc[p] = "return"
    /\ mu' = 0
    /\ calls' = [calls EXCEPT ![p].done = TRUE]
    /\ pc' = [pc EXCEPT ![p] = "done"]
    /\ UNCHANGED <<facade, version, rotationTime, lastRotation, now, rotErr, sinkLog,
                   lockOrder>>

Next ==
    \/ Tick
    \/ \E p \in Procs : CallWrite(p)
    \/ \E p \in Procs : CallClose(p)
    \/ \E p \in Procs : Lock(p)
    \/ \E p \in Procs : Check(p)
    \/ \E p \in Procs : Rotate(p)
    \/ \E p \in Procs : Stamp(p)
    \/ \E p \in Procs : SinkWrite(p)
    \/ \E p \in Procs : FallbackWrite(p)
    \/ \E p \in Procs : CloseSink(p)
    \/ \E p \in Procs : Return(p)

Spec == Init /\ [][Next]_vars

\* the statements of Write/Close between Lock and the return; each is a call
\* on the sink, which returns, or a statement of the writer itself
Running(p) ==
    \/ Check(p)
    \/ Rotate(p)
    \/ Stamp(p)
    \/ SinkWrite(p)
    \/ FallbackWrite(p)
    \/ CloseSink(p)
    \/ Return(p)

\* Goroutines keep being scheduled and the calls on the sink return (weak
\* fairness of a goroutine's statements); sync.Mutex hands the lock to a
\* goroutine that keeps waiting for it (strong fairness of Lock).
SpecFair ==
    /\ Spec
    /\ \A p \in Procs : WF_vars(Running(p))
    /\ \A p \in Procs : SF_vars(Lock(p))
\* ---- the sink rotating on its own -----------------------------------------
\* variant of AfterSinkRotation in which a rotation made by the sink restarts
\* the interval
AfterSinkRotation_restart(last, t) == t

\* lastRotation after a sink write during which the sink rotated the file by
\* itself at time t: Write returns the sink's result and assigns nothing
AfterSinkRotation(last, t) == last

\* w.Logger.Write(p), on either path of Write, when the file would outgrow
\* its size limit: the sink rotates the file by itself and then writes
SinkWriteRotating(p) ==
    /\ pc[p] \in {"write", "fallback"}
    /\ \E r \in SinkWriteResults(calls[p].len) :
          /\ sinkLog' = Append(sinkLog,
                 [op |-> "write", call |-> p, n |-> r.n, err |-> r.err,
                  held |-> mu, own |-> now])
          /\ calls' = [calls EXCEPT ![p].res =
                          IF pc[p] = "write" THEN WriteResult(r)
                          ELSE FallbackResult(r, rotErr[p])]
    /\ lastRotation' = AfterSinkRotation(lastRotation, now)
    /\ pc' = [pc EXCEPT ![p] = "return"]
    /\ UNCHANGED <<facade, version, rotationTime, mu, now, rotErr, lockOrder>>

NextSink ==
    \/ Next
    \/ \E p \in Procs : SinkWriteRotating(p)

\* the writer over a sink that also rotates by size
SpecSink == Init /\ [][NextSink]_vars
\* ---- the methods promoted from the embedded sink ---------------------------
\* TimeRotatingWriter embeds *lumberjack.Logger, so the sink's exported
\* methods that the writer does not define itself are methods of the writer:
\* Rotate in both versions, Close in the earlier one.  They run the sink's
\* code only: no w.mu.Lock(), no access to lastRotation.

\* a goroutine calls w.Rotate()
PromotedRotate(p) ==
    /\ pc[p] = "idle"
    /\ \E e \in SinkRotateResults :
          /\ sinkLog' = Append(sinkLog,
                 [op |-> "rotate", call |-> p, n |-> 0, err |-> e,
                  held |-> mu, own |-> 0 - 1])
          /\ calls' = [calls EXCEPT ![p] =
                 [NewCall("Rotate", 0) EXCEPT !.done = TRUE,
                                              !.res = [n |-> 0, err |-> e]]]
    /\ pc' = [pc EXCEPT ![p] = "done"]
    /\ UNCHANGED <<facade, version, rotationTime, lastRotation, mu, now, rotErr,
                   lockOrder>>

\* a goroutine calls w.Close() of the earlier version
PromotedClose(p) ==
    /\ version = 1
    /\ pc[p] = "idle"
    /\ \E e \in SinkCloseResults :
          /\ sinkLog' = Append(sinkLog,
                 [op |-> "close", call |-> p, n |-> 0, err |-> e,
                  held |-> mu, own |-> 0 - 1])
          /\ calls' = [calls EXCEPT ![p] =
                 [NewCall("Close", 0) EXCEPT !.done = TRUE,
                                             !.res = [n |-> 0, err |-> e]]]
    /\ pc' = [pc EXCEPT ![p] = "done"]
    /\ UNCHANGED <<facade, version, rotationTime, lastRotation, mu, now, rotErr,
                   lockOrder>>

NextMethods ==
    \/ Next
    \/ \E p \in Procs : PromotedRotate(p)
    \/ \E p \in Procs : PromotedClose(p)

\* the writer with its whole method set in use
SpecMethods == Init /\ [][NextMethods]_vars

\* ---- the logging facade -------------------------------------------------
\* the writer's state, which the facade's methods do not touch
writer == <<rotationTime, lastRotation, mu, now, pc, rotErr, calls, sinkLog,
            lockOrder>>

\* context.WithValue(ctx, opKey, v) / context.WithValue(ctx, traceIDKey, v)
WithOp(ctx, v) == [ctx EXCEPT !.op = Present(v)]
WithTrace(ctx, v) == [ctx EXCEPT !.trace = Present(v)]

\* "if ctx == nil { ctx = context.Background() }" of the later version; the
\* earlier version passes ctx on as it is
OrBackground(ver, ctx) == IF ver = 2 /\ ctx.nil THEN Background ELSE ctx

\* the earlier version panics on a nil context (context.WithValue with a nil
\* parent, ctx.Value on a nil interface); the later one never does
Panics(ver, ctx) == ver = 1 /\ ctx.nil

\* the trace id NewCtx stores, and whether it called uuid.New() for it
\*   later version: *traceID, else a non-empty id already in ctx, else a UUID
\*   earlier version: *traceId, else a UUID
NewCtxGenerates(ver, ctx, ptr) ==
    /\ ~ptr.has
    /\ IF ver = 2 THEN ~(ctx.trace.has /\ ctx.trace.v # Str("")) ELSE TRUE

NewCtxTrace(ver, ctx, ptr, k) ==
    IF ptr.has THEN ptr.v
    ELSE IF NewCtxGenerates(ver, ctx, ptr) THEN Uuid(k + 1)
    ELSE ctx.trace.v

\* the process is gone after Fatal/Fatalf (zap exits after writing the entry)
Exited ==
    /\ records # <<>>
    /\ records[Len(records)].method \in {"Fatal", "Fatalf"}

CtxInputs == ctxs \cup {NilCtx}
PtrInputs == {Absent} \cup {Present(Str(t)) : t \in TraceStrs}

\* the program keeps the context a constructor returned
Keep(c) ==
    /\ Cardinality(ctxs \cup {c}) <= MaxCtxs
    /\ ctxs' = ctxs \cup {c}

\* NewCtx(ctx, op, traceID)
NewCtx ==
    /\ ~Exited
    /\ \E parent \in CtxInputs, op \in OpNames, ptr \in PtrInputs :
          /\ ~Panics(version, parent)
          /\ LET ctx == OrBackground(version, parent) IN
             /\ Keep(WithTrace(WithOp(ctx, Str(op)),
                               NewCtxTrace(version, ctx, ptr, uuids)))
             /\ uuids' = IF NewCtxGenerates(version, ctx, ptr)
                         THEN uuids + 1 ELSE uuids
    /\ UNCHANGED <<version, writer, records>>

\* NewOpCtx(ctx, op)
NewOpCtx ==
    /\ ~Exited
    /\ \E parent \in CtxInputs, op \in OpNames :
          /\ ~Panics(version, parent)
          /\ Keep(WithOp(OrBackground(version, parent), Str(op)))
    /\ UNCHANGED <<version, writer, records, uuids>>

\* the trace id NewTraceCtx and NewTraceContext store: *traceID, else a UUID
PtrTrace(ptr, k) == IF ptr.has THEN ptr.v ELSE Uuid(k + 1)

\* NewTraceCtx(ctx, traceID)
NewTraceCtx ==
    /\ ~Exited
    /\ \E parent \in CtxInputs, ptr \in PtrInputs :
          /\ ~Panics(version, parent)
          /\ Keep(WithTrace(OrBackground(version, parent),
                            PtrTrace(ptr, uuids)))
          /\ uuids' = IF ptr.has THEN uuids ELSE uuids + 1
    /\ UNCHANGED <<version, writer, records>>

\* NewTraceContext(traceID)
NewTraceContext ==
    /\ ~Exited
    /\ \E ptr \in PtrInputs :
          /\ Keep(WithTrace(Background, PtrTrace(ptr, uuids)))
          /\ uuids' = IF ptr.has THEN uuids ELSE uuids + 1
    /\ UNCHANGED <<version, writer, records>>

\* getOpFromContext(ctx)
\*   later version: "unknown_op_nil_context" for nil, the op, or "unknown_op"
\*   earlier version: the op, or "unknown"
getOpFromContext(ver, ctx) ==
    IF ver = 2
    THEN IF ctx.nil THEN Str("unknown_op_nil_context")
         ELSE IF ctx.op.has THEN ctx.op.v
         ELSE Str("unknown_op")
    ELSE IF ctx.op.has THEN ctx.op.v ELSE Str("unknown")

\* getTraceIDFromContext(ctx): the trace id in ctx, else a new UUID
getTraceIDFromContext(ctx, k) ==
    IF ~ctx.nil /\ ctx.trace.has THEN ctx.trace.v ELSE Uuid(k + 1)

\* Info, Infof, Warn, Warnf, Error, Errorf, Fatal, Fatalf of both versions
\* and Debug of the later one: the zap entry gets the fields op and traceId
Log ==
    /\ ~Exited
    /\ Len(records) < MaxRecords
    /\ \E m \in Methods, ctx \in CtxInputs :
          /\ ~(version = 1 /\ m = "Debug")
          /\ ~Panics(version, ctx)
          /\ records' = Append(records,
                [method |-> m, ctx |-> ctx,
                 op |-> Present(getOpFromContext(version, ctx)),
                 trace |-> Present(getTraceIDFromContext(ctx, uuids))])
          /\ uuids' = IF ~ctx.nil /\ ctx.trace.has THEN uuids ELSE uuids + 1
    /\ UNCHANGED <<version, writer, ctxs>>

\* Debug(fields ...interface{}) of the earlier version: takes no context
\* and prints the fields with fmt; nothing carries op or traceId
DebugPrint ==
    /\ ~Exited
    /\ Len(records) < MaxRecords
    /\ version = 1
    /\ records' = Append(records,
          [method |-> "Debug", ctx |-> NilCtx, op |-> Absent, trace |-> Absent])
    /\ UNCHANGED <<version, writer, ctxs, uuids>>

NextFacade ==
    \/ NewCtx
    \/ NewOpCtx
    \/ NewTraceCtx
    \/ NewTraceContext
    \/ Log
    \/ DebugPrint

\* the facade of a program that has built its logger and does not log to a file
InitFacade == Init /\ rotationTime = 0

SpecFacade == InitFacade /\ [][NextFacade]_vars

\* ---- observations over the recorded history ------------------------------
CallIds == {c \in Procs : calls[c].kind # "none"}
EventIds == 1..Len(sinkLog)
EventsOf(c) == {i \in EventIds : sinkLog[i].call = c}
RotatesOf(c) == {i \in EventsOf(c) : sinkLog[i].op = "rotate"}
WritesOf(c) == {i \in EventsOf(c) : sinkLog[i].op = "write"}
ClosesOf(c) == {i \in EventsOf(c) : sinkLog[i].op = "close"}
FailedRotatesOf(c) == {i \in RotatesOf(c) : ~sinkLog[i].err.nil}
DoneWrites == {c \in CallIds : calls[c].done /\ calls[c].kind = "Write"}
DoneCloses == {c \in CallIds : calls[c].done /\ calls[c].kind = "Close"}

\* the text t occurs inside the text s
Contains(s, t) ==
    \E i \in 1..(Len(s) - Len(t) + 1) : SubSeq(s, i, i + Len(t) - 1) = t

\* C1 - Interval gating.  For rotationTime > 0, a finished Write that found
\* now - lastRotation < rotationTime at its check made no Rotate call on the
\* sink; one that found now - lastRotation >= rotationTime made exactly one,
\* and that Rotate call reached the sink before the sink write of the same
\* call.  Until a rotation has succeeded, lastRotation is the construction
\* time (0).
C1_IntervalGating ==
    /\ (\A i \in EventIds : sinkLog[i].op = "rotate" => ~sinkLog[i].err.nil)
          => lastRotation = 0
    /\ rotationTime > 0 =>
         \A c \in DoneWrites :
            IF calls[c].chkNow - calls[c].chkLast < rotationTime
            THEN RotatesOf(c) = {}
            ELSE /\ Cardinality(RotatesOf(c)) = 1
                 /\ \A i \in RotatesOf(c) : \A j \in WritesOf(c) : i < j

\* a Write that was not due and did not rotate, and a later Write that was
\* due, rotated once and then wrote
C1_Witness ==
    /\ rotationTime > 0
    /\ \E c \in DoneWrites :
          /\ calls[c].chkNow - calls[c].chkLast < rotationTime
          /\ RotatesOf(c) = {}
          /\ WritesOf(c) # {}
    /\ \E c \in DoneWrites :
          /\ calls[c].chkNow - calls[c].chkLast >= rotationTime
          /\ Cardinality(RotatesOf(c)) = 1
          /\ WritesOf(c) # {}

\* C2 - Disabled time-rotation.  For rotationTime <= 0 the sink never
\* receives a Rotate call from the writer.
C2_DisabledNeverRotates ==
    rotationTime <= 0 => \A i \in EventIds : sinkLog[i].op # "rotate"

\* C3 - Write-preserving on rotation failure.  A finished Write whose Rotate
\* failed has written to the sink after that Rotate; when that sink write
\* succeeded with count n, Write returned n and a non-nil error whose text
\* carries the rotation error.
C3_WritePreserving ==
    \A c \in DoneWrites : \A i \in FailedRotatesOf(c) :
       /\ \E j \in WritesOf(c) : i < j
       /\ \A j \in WritesOf(c) :
             sinkLog[j].err.nil =>
                /\ calls[c].res.n = sinkLog[j].n
                /\ ~calls[c].res.err.nil
                /\ Contains(calls[c].res.err.msg, sinkLog[i].err.msg)

\* C4 - Total failure on double fault.  A finished Write whose Rotate failed
\* and whose sink write then failed as well returned the count 0, whatever
\* count the sink write reported, and one non-nil error whose text carries
\* both the rotation error and the write error.
C4_DoubleFault ==
    \A c \in DoneWrites : \A i \in FailedRotatesOf(c) : \A j \in WritesOf(c) :
       ~sinkLog[j].err.nil =>
          /\ calls[c].res.n = 0
          /\ ~calls[c].res.err.nil
          /\ Contains(calls[c].res.err.msg, sinkLog[i].err.msg)
          /\ Contains(calls[c].res.err.msg, sinkLog[j].err.msg)

\* a double fault in which the sink write reported a non-zero count
C4_Witness ==
    \E c \in DoneWrites : \E i \in FailedRotatesOf(c) : \E j \in WritesOf(c) :
       /\ i < j
       /\ ~sinkLog[j].err.nil
       /\ sinkLog[j].n > 0
       /\ calls[c].res.n = 0

\* positions of Write/Close at which the goroutine is between Lock and Unlock
Locked == {"check", "rotate", "stamp", "write", "fallback", "close", "return"}

SinkOrder ==
    LET sel == SelectSeq(sinkLog, LAMBDA e : e.op \in {"write", "close"})
    IN  [i \in 1..Len(sel) |-> sel[i].call]

LockPos(c) == CHOOSE i \in 1..Len(lockOrder) : lockOrder[i] = c

C8_TimestampAdvance ==
    [][/\ lastRotation' >= lastRotation
       /\ lastRotation' <= now'
       /\ lastRotation' # lastRotation =>
             \E p \in Procs :
                /\ pc[p] = "stamp" /\ pc'[p] = "write"
                /\ mu = p
                /\ calls[p].kind = "Write"
                /\ sinkLog # <<>>
                /\ sinkLog[Len(sinkLog)].op = "rotate"
                /\ sinkLog[Len(sinkLog)].call = p
                /\ sinkLog[Len(sinkLog)].err.nil
                /\ lastRotation' = now]_vars

\* a rotation succeeded and lastRotation moved past the value the Write saw
\* and past the time of its check
C8_Witness ==
    \E c \in CallIds :
       /\ \E i \in RotatesOf(c) : sinkLog[i].err.nil
       /\ lastRotation > calls[c].chkLast
       /\ lastRotation > calls[c].chkNow
       /\ lastRotation <= now

\* the sink received no successful Rotate at the positions lo+1..hi
NoRotationBetween(lo, hi) ==
    \A k \in EventIds :
       (lo < k /\ k <= hi) => ~(sinkLog[k].op = "rotate" /\ sinkLog[k].err.nil)

\* C9 - Retry after rotation failure.  For rotationTime > 0: when the Rotate
\* of a Write failed, lastRotation keeps the value that Write saw, through
\* its fallback write and its return, until a later Rotate succeeds; so every
\* later Write that acquires the mutex before a Rotate has succeeded sees the
\* same lastRotation, finds the rotation due and calls Rotate exactly once.
C9_RetryAfterFailure ==
    rotationTime > 0 =>
       \A i \in EventIds :
          (sinkLog[i].op = "rotate" /\ ~sinkLog[i].err.nil) =>
             LET a == sinkLog[i].call IN
             /\ NoRotationBetween(i, Len(sinkLog)) =>
                   lastRotation = calls[a].chkLast
             /\ \A b \in CallIds :
                   (/\ calls[b].kind = "Write"
                    /\ calls[b].seen >= i
                    /\ NoRotationBetween(i, calls[b].seen)
                    /\ calls[b].chkNow >= 0)
                   => /\ calls[b].chkLast = calls[a].chkLast
                      /\ calls[b].chkNow - calls[b].chkLast >= rotationTime
                      /\ calls[b].done => Cardinality(RotatesOf(b)) = 1

\* a Write whose Rotate failed, followed by a Write that retried the
\* rotation and succeeded
C9_Witness ==
    /\ rotationTime > 0
    /\ \E a, b \in DoneWrites :
          /\ FailedRotatesOf(a) # {}
          /\ WritesOf(a) # {}
          /\ calls[b].seen > calls[a].seen
          /\ \E j \in RotatesOf(b) : sinkLog[j].err.nil

\* C10 - No error is swallowed.  A finished Write or Close during which the
\* sink's Rotate, Write or Close returned a non-nil error returned a non-nil
\* error to its caller.
C10_NoErrorSwallowed ==
    \A c \in CallIds :
       (calls[c].done /\ \E i \in EventsOf(c) : ~sinkLog[i].err.nil)
          => ~calls[c].res.err.nil

\* a Write whose rotation succeeded and whose sink write then failed
C10_Witness ==
    \E c \in DoneWrites :
       /\ \E i \in RotatesOf(c) : sinkLog[i].err.nil
       /\ \E j \in WritesOf(c) : ~sinkLog[j].err.nil
       /\ ~calls[c].res.err.nil

\* C11 - Verbatim write result.  A finished Write that made no failed Rotate
\* (no rotation was due, or the rotation that was due succeeded) made exactly
\* one sink write and returned exactly the count and the error value of that
\* sink write, also when the count is non-zero and the error non-nil.
C11_VerbatimWrite ==
    \A c \in DoneWrites :
       FailedRotatesOf(c) = {} =>
          /\ Cardinality(WritesOf(c)) = 1
          /\ \A j \in WritesOf(c) :
                calls[c].res = [n |-> sinkLog[j].n, err |-> sinkLog[j].err]

\* a Write without rotation whose sink write reported a non-zero count
\* together with an error, and a Write whose rotation succeeded
C11_Witness ==
    /\ \E c \in DoneWrites :
          /\ RotatesOf(c) = {}
          /\ \E j \in WritesOf(c) : sinkLog[j].n > 0 /\ ~sinkLog[j].err.nil
          /\ calls[c].res.n > 0 /\ ~calls[c].res.err.nil
    /\ \E c \in DoneWrites :
          /\ RotatesOf(c) # {} /\ FailedRotatesOf(c) = {}
          /\ WritesOf(c) # {}

OpSentinels == {Str("unknown_op"), Str("unknown_op_nil_context"), Str("unknown")}

\* C12 - Context metadata.  Every record logged through Debug, Info, Infof,
\* Warn, Warnf, Error, Errorf, Fatal or Fatalf carries an operation name and
\* a trace identifier; they are the ones of the context when it carries them
\* (so records logged with one context that carries a trace identifier share
\* it); an absent operation name is replaced by a fixed sentinel and an
\* absent trace identifier by a newly generated one, which no other record
\* carries.
C12_ContextMetadata ==
    \A i \in 1..Len(records) :
       LET r == records[i] IN
       /\ r.op.has /\ r.trace.has
       /\ IF ~r.ctx.nil /\ r.ctx.op.has
          THEN r.op.v = r.ctx.op.v
          ELSE r.op.v \in OpSentinels
       /\ IF ~r.ctx.nil /\ r.ctx.trace.has
          THEN r.trace.v = r.ctx.trace.v
          ELSE /\ r.trace.v.gen > 0
               /\ \A j \in 1..Len(records) :
                     j # i => records[j].trace.v # r.trace.v

\* C13 - Single attempt per call.  Every finished Write has called the
\* sink's write exactly once and the sink's rotate at most once, whether no
\* rotation was due, the rotation succeeded or the rotation failed.
C13_SingleAttempt ==
    \A c \in DoneWrites :
       /\ Cardinality(WritesOf(c)) = 1
       /\ Cardinality(RotatesOf(c)) <= 1

\* C14 - Lock release and progress.  The mutex is held only by a goroutine
\* that is between Lock and Unlock of a call in progress, so every return of
\* Write and Close (normal, rotation failure, double fault, write error) has
\* released it and it is never held while no call is in progress; and, when
\* goroutines are scheduled, the sink's calls return and the mutex is fair,
\* every started Write or Close returns.
C14_LockRelease ==
    /\ [](mu # 0 => pc[mu] \in Locked)
    /\ [](\A p \in Procs : pc[p] = "done" => calls[p].done /\ mu # p)
    /\ \A p \in Procs : (pc[p] = "lock") ~> (pc[p] = "done")

\* every call has returned, among them a Write that returned after a double
\* fault and a Write or Close that had to wait for the mutex, and the mutex
\* is free
C14_Witness ==
    /\ mu = 0
    /\ \A p \in Procs : pc[p] = "done"
    /\ \E c \in DoneWrites :
          /\ FailedRotatesOf(c) # {}
          /\ \E j \in WritesOf(c) : ~sinkLog[j].err.nil
    /\ \E c \in CallIds : calls[c].seen > 0

\* C15 - lastRotation under the lock.  In every step: lastRotation changes
\* only in a step of the goroutine that holds the mutex before and after the
\* step; a goroutine reads lastRotation (its check) only in a step in which
\* it holds the mutex before and after; a step of a goroutine that does not
\* hold the mutex (entering a call, acquiring the mutex) neither changes
\* lastRotation nor reads it; and every write the sink receives is made by
\* the goroutine that holds the mutex before and after that step.
C15_LastRotationLocked ==
    [][/\ lastRotation' # lastRotation =>
             \E p \in Procs : pc'[p] # pc[p] /\ mu = p /\ mu' = p
       /\ \A p \in Procs :
             (pc[p] = "check" /\ pc'[p] # pc[p]) =>
                /\ mu = p /\ mu' = p
                /\ calls'[p].chkLast = lastRotation
       /\ \A p \in Procs :
             (pc'[p] # pc[p] /\ mu # p) =>
                /\ lastRotation' = lastRotation
                /\ calls'[p].chkLast = 0 - 1
                /\ calls'[p].stamp = 0 - 1
       /\ Len(sinkLog') > Len(sinkLog) =>
             LET e == sinkLog'[Len(sinkLog')] IN
             e.op = "write" => (mu = e.call /\ mu' = e.call /\ e.held = e.call)
      ]_vars

\* a goroutine waits for the mutex while the holder has read lastRotation,
\* rotated, advanced lastRotation and written to the sink
C15_Witness ==
    \E a, b \in Procs :
       /\ a # b
       /\ pc[b] = "lock"
       /\ mu = a
       /\ calls[a].chkLast >= 0
       /\ calls[a].stamp > calls[a].chkLast
       /\ lastRotation = calls[a].stamp
       /\ \E j \in WritesOf(a) : sinkLog[j].held = a

\* the successful Rotate calls among the first k calls the sink received
ForcedBefore(k) ==
    {i \in 1..k : sinkLog[i].op = "rotate" /\ sinkLog[i].err.nil}

\* the value lastRotation got from the last of them (the construction time
\* when there is none)
LastForced(k) ==
    IF ForcedBefore(k) = {} THEN 0
    ELSE LET i == CHOOSE i \in ForcedBefore(k) : \A j \in ForcedBefore(k) : j <= i
         IN  calls[sinkLog[i].call].stamp

\* C16 - as stated: the time a Write compares with the interval is measured
\* from the most recent rotation of the file, forced by the writer or made
\* by the sink on its own; so the lastRotation a Write reads at its check is
\* not earlier than any rotation the sink made on its own before that check
\* and not earlier than the value any forced rotation before it stored.
C16_AnyRotationRestarts ==
    \A c \in CallIds :
       calls[c].chkNow >= 0 =>
          /\ \A i \in 1..calls[c].seen :
                sinkLog[i].own >= 0 => calls[c].chkLast >= sinkLog[i].own
          /\ calls[c].chkLast >= LastForced(calls[c].seen)

\* C16 - amended: the time a Write compares with the interval is measured
\* from the most recent rotation the writer itself forced with success (the
\* time stored after it), or from construction when there was none; a
\* rotation the sink makes on its own does not restart the interval.  So the
\* lastRotation read at the check is exactly that value, whatever rotations
\* the sink made by itself, and for rotationTime > 0 a finished Write called
\* Rotate exactly when the time since that value had reached rotationTime.
C16_ForcedRotationsOnly ==
    \A c \in CallIds :
       calls[c].chkNow >= 0 =>
          /\ calls[c].chkLast = LastForced(calls[c].seen)
          /\ (rotationTime > 0 /\ calls[c].done) =>
                (RotatesOf(c) # {} <=>
                   calls[c].chkNow - LastForced(calls[c].seen) >= rotationTime)

\* the sink rotated on its own, and a later Write forced a rotation although
\* less than rotationTime had passed since the sink's own rotation
C16_Witness ==
    /\ rotationTime > 0
    /\ \E c \in DoneWrites : \E i \in 1..calls[c].seen :
          /\ sinkLog[i].own > calls[c].chkLast
          /\ calls[c].chkNow - sinkLog[i].own < rotationTime
          /\ calls[c].chkNow - calls[c].chkLast >= rotationTime
          /\ RotatesOf(c) # {}

\* C17 - Method set under the lock.  Every call the sink receives through a
\* method of the writer is made by a goroutine that holds the mutex, and
\* every call that rotated the sink with success and has returned has
\* stored the rotation in lastRotation.
C17_MethodSetLocked ==
    /\ \A i \in EventIds : sinkLog[i].held = sinkLog[i].call
    /\ \A i \in EventIds :
          (/\ sinkLog[i].op = "rotate"
           /\ sinkLog[i].err.nil
           /\ calls[sinkLog[i].call].done)
          => /\ calls[sinkLog[i].call].stamp >= 0
             /\ lastRotation >= calls[sinkLog[i].call].stamp

\* C18 - Rotation only inside Write.  The sink has received no call when the
\* writer is constructed, and in every step each Rotate call the sink
\* receives is made by a goroutine that is inside Write at the statement
\* after a check that found the rotation due; so the passing of time alone
\* and the steps of Close make no Rotate call, however long the rotation has
\* been due.
C18_RotateOnlyInWrite ==
    /\ sinkLog = <<>>
    /\ [][\A i \in (Len(sinkLog) + 1)..Len(sinkLog') :
             sinkLog'[i].op = "rotate" =>
                LET p == sinkLog'[i].call IN
                /\ calls[p].kind = "Write"
                /\ pc[p] = "rotate"
                /\ RotationDue(version, rotationTime, calls[p].chkLast,
                               calls[p].chkNow)]_vars

\* the rotation was due for twice the interval or more: a Close that came
\* first did not rotate, the Write that came after it did
C18_Witness ==
    /\ rotationTime > 0
    /\ \E c \in DoneWrites, d \in DoneCloses :
          /\ calls[d].seen < calls[c].seen
          /\ RotatesOf(d) = {}
          /\ calls[c].chkNow - calls[c].chkLast >= 2 * rotationTime
          /\ \E i \in RotatesOf(c) : sinkLog[i].err.nil

\* C19 - Minimum spacing of forced rotations.  The clock never goes back and
\* a call stores the current time in lastRotation after its Rotate has
\* returned; and for rotationTime > 0, in every step in which a Rotate call
\* of the writer succeeds, the current time is at least rotationTime after
\* construction (time 0) and at least rotationTime after the time that each
\* call with an earlier successful Rotate stored after it.  So two successful
\* Rotate calls are at least rotationTime apart, and the first is at least
\* rotationTime after construction, however the Write calls interleave.
C19_MinimumSpacing ==
    [][/\ now' >= now
       /\ \A p \in Procs :
             calls'[p].stamp # calls[p].stamp =>
                /\ calls'[p].stamp = now
                /\ \E i \in RotatesOf(p) : sinkLog[i].err.nil
       /\ rotationTime > 0 =>
             \A i \in (Len(sinkLog) + 1)..Len(sinkLog') :
                (sinkLog'[i].op = "rotate" /\ sinkLog'[i].err.nil) =>
                   /\ calls[sinkLog'[i].call].stamp < 0
                   /\ now - 0 >= rotationTime
                   /\ \A j \in EventIds :
                         (sinkLog[j].op = "rotate" /\ sinkLog[j].err.nil) =>
                            /\ calls[sinkLog[j].call].stamp >= 0
                            /\ now - calls[sinkLog[j].call].stamp >= rotationTime
      ]_vars

\* two Writes rotated with success, the first as early as the interval
\* allows after construction and the second as early as it allows after
\* the first
C19_Witness ==
    /\ rotationTime > 0
    /\ \E a, b \in DoneWrites :
          /\ a # b
          /\ \E i \in RotatesOf(a) : \E j \in RotatesOf(b) :
                i < j /\ sinkLog[i].err.nil /\ sinkLog[j].err.nil
          /\ calls[a].chkNow = rotationTime
          /\ calls[a].stamp = calls[a].chkNow
          /\ calls[b].chkNow - calls[a].stamp = rotationTime

\* the finished Writes whose rotation succeeded and whose sink write then
\* failed, with no successful Rotate received by the sink since
RotatedThenFailed ==
    {a \in DoneWrites :
        /\ \E i \in RotatesOf(a) : sinkLog[i].err.nil
        /\ \E j \in WritesOf(a) :
              ~sinkLog[j].err.nil /\ NoRotationBetween(j, Len(sinkLog))}

\* C20 - A failed write keeps the rotation.  In every step: the sink write
\* and the return of a Write that has advanced lastRotation leave it at the
\* advanced value, whether the sink write fails or not; such a Write has
\* called Rotate once; and when a Write whose rotation succeeded and whose
\* sink write failed has returned, a Write that makes its check before any
\* other rotation reads the advanced value and, if less than rotationTime
\* has passed since it, goes on to the sink write without calling Rotate.
C20_FailedWriteKeepsRotation ==
    [][/\ \A p \in Procs :
             (/\ pc'[p] # pc[p]
              /\ pc[p] \in {"write", "return"}
              /\ calls[p].stamp >= 0)
             => /\ lastRotation = calls[p].stamp
                /\ lastRotation' = lastRotation
       /\ \A b \in Procs :
             (pc[b] = "check" /\ pc'[b] # pc[b]) =>
                \A a \in RotatedThenFailed :
                   /\ Cardinality(RotatesOf(a)) = 1
                   /\ lastRotation = calls[a].stamp
                   /\ calls'[b].chkLast = calls[a].stamp
                   /\ now - calls[a].stamp < rotationTime => pc'[b] = "write"
      ]_vars

\* a Write rotated, advanced lastRotation and failed in its sink write; the
\* next Write, which would have been due by the old lastRotation, found less
\* than the interval passed since the new one and did not rotate
C20_Witness ==
    /\ rotationTime > 0
    /\ \E a \in RotatedThenFailed : \E b \in DoneWrites :
          /\ calls[b].seen > calls[a].seen
          /\ calls[b].chkLast = calls[a].stamp
          /\ calls[b].chkNow - calls[a].stamp < rotationTime
          /\ calls[b].chkNow - calls[a].chkLast >= rotationTime
          /\ RotatesOf(b) = {}
          /\ WritesOf(b) # {}
====
